---- MODULE Spec2Model ----
(***************************************************************************)
(* Pulse AI client: the conversation state machine of ChatComponent, the    *)
(* history reconciler of App and the rename / pin / delete operations of    *)
(* Sidebar, running against the session store reached over HTTP.            *)
(*                                                                          *)
(* Text is a sequence of tokens, so that trimming and the `x || default`    *)
(* idiom are computed rather than assumed: " " and "NL" are whitespace      *)
(* tokens, every other token is a printable one.                            *)
(***************************************************************************)
EXTENDS Integers, Sequences, FiniteSets, TLC

\* ------------------------------------------------------------------ bounds
MaxSessions   == 2
MaxInFlight   == 2
MaxSequential == 1
MaxMsgs       == 4
MaxFollowUps  == 1

\* ------------------------------------------------------------------- text
IsWs(t) == t \in {" ", "NL"}

RECURSIVE TrimLeft(_)
TrimLeft(s) == IF s # <<>> /\ IsWs(Head(s)) THEN TrimLeft(Tail(s)) ELSE s

RECURSIVE TrimRight(_)
TrimRight(s) ==
  IF s # <<>> /\ IsWs(s[Len(s)]) THEN TrimRight(SubSeq(s, 1, Len(s) - 1)) ELSE s

\* String.prototype.trim
Trim(s) == TrimRight(TrimLeft(s))

\* the JavaScript null in a text position
NullStr == <<"null">>

\* truthiness of a text value: '' and null are falsy
Truthy(s) == s # <<>> /\ s # NullStr

\* a || b on text values
OrElse(a, b) == IF Truthy(a) THEN a ELSE b

Anonymous      == <<"Anonymous">>
NoDisease      == <<"No specific disease mentioned">>
UntitledChat   == <<"Untitled Chat">>

\* what the user can type into the name, problem, message and rename inputs
\* (every input starts out empty; these are the texts typed over it)
NameInputs    == {<<" ">>, <<" ", "K">>}
ProblemInputs == {<<" ">>, <<"f", " ">>}
MessageInputs == {<<" ">>, <<" ", "q">>}
RenameInputs  == {<<" ">>, <<" ", "t">>}

\* the assistant replies the store can produce (the empty reply included)
AiResponses == {<<>>, <<"r">>}

\* ------------------------------------------------------------ axios errors
\* The fields of an axios error the handlers look at.
AxiosErrors ==
  { [response |-> TRUE,  detail |-> "Server detail", code |-> "ERR_BAD_RESPONSE",
     msgTimeout |-> FALSE, request |-> TRUE],
    [response |-> TRUE,  detail |-> "", code |-> "ERR_BAD_RESPONSE",
     msgTimeout |-> FALSE, request |-> TRUE],
    [response |-> FALSE, detail |-> "", code |-> "ECONNABORTED",
     msgTimeout |-> TRUE,  request |-> TRUE],
    [response |-> FALSE, detail |-> "", code |-> "ERR_NETWORK",
     msgTimeout |-> FALSE, request |-> TRUE],
    [response |-> FALSE, detail |-> "", code |-> "",
     msgTimeout |-> FALSE, request |-> FALSE] }

\* the failures a request of the application meets: a non-2xx response, a
\* timeout, no connectivity
StoreErrors ==
  { e \in AxiosErrors : \/ e.response /\ e.detail # ""
                        \/ e.code = "ECONNABORTED"
                        \/ e.code = "ERR_NETWORK" }

TimeoutMsg   == "Request timed out. Please check your connection and try again."
NoConnectMsg == "Unable to connect to the server. Please check if the backend is running."

\* every combination of the fields createChat looks at
AllAxiosErrors ==
  [ response : BOOLEAN, detail : {"", "Server detail"},
    code : {"ERR_BAD_RESPONSE", "ECONNABORTED", "ERR_NETWORK", ""},
    msgTimeout : BOOLEAN, request : BOOLEAN ]

\* (mutation of createChatError: error.request is tested before the timeout)
createChatError_requestFirst(e) ==
  IF e.response
    THEN (IF e.detail # "" THEN e.detail
          ELSE "An error occurred while processing your request")
  ELSE IF e.request THEN NoConnectMsg
  ELSE IF e.code = "ECONNABORTED" \/ e.msgTimeout THEN TimeoutMsg
  ELSE "An unexpected error occurred"

\* services/api.js createChat: the message of the Error it throws
createChatError(e) ==
  IF e.response
    THEN (IF e.detail # "" THEN e.detail
          ELSE "An error occurred while processing your request")
  ELSE IF e.code = "ECONNABORTED" \/ e.msgTimeout THEN TimeoutMsg
  ELSE IF e.request THEN NoConnectMsg
  ELSE "An unexpected error occurred"

\* App.js handleChatUpdate / handleChatDelete: the text of the alert
updateAlert(e) ==
  IF e.response THEN "Failed to update chat. Please try again."
  ELSE IF e.request THEN "Unable to connect to the server."
  ELSE "An unexpected error occurred."

deleteAlert(e) ==
  IF e.response THEN "Failed to delete chat. Please try again."
  ELSE IF e.request THEN "Unable to connect to the server."
  ELSE "An unexpected error occurred."

\* ---------------------------------------------------------- session store
NoId == 0
Ids  == 1 .. MaxSessions
Reqs == 1 .. MaxInFlight

\* the user turn as the store keeps it in a session's messages array
FormatUser(n, p, m) ==
  <<"Patient Name:">> \o n \o <<"NL", "Problem:">> \o (IF Truthy(p) THEN p ELSE <<>>)
    \o <<"NL", "Message:", " ">> \o (IF Truthy(m) THEN m ELSE <<>>)

\* POST /api/chat without session_id: the record the store creates
NewSession(id, data, ai) ==
  [ id              |-> id,
    patient_name    |-> OrElse(data.name, Anonymous),
    problem         |-> data.problem,
    additional_info |-> data.message,
    ai_response     |-> ai,
    pinned          |-> FALSE,
    messages        |-> << [role |-> "user",
                            content |-> FormatUser(OrElse(data.name, Anonymous),
                                                   data.problem, data.message)],
                           [role |-> "assistant", content |-> ai] >> ]

\* POST /api/chat with session_id: the turn pair appended to the session
AppendTurn(s, data, ai) ==
  [s EXCEPT !.messages = @ \o << [role |-> "user",
                                  content |-> FormatUser(data.name, data.problem,
                                                         data.message)],
                                 [role |-> "assistant", content |-> ai] >>,
            !.ai_response = ai]

\* PATCH /api/sessions/{id}: merge semantics, only the supplied field changes
ApplyUpdate(s, u) ==
  IF u.field = "problem" THEN [s EXCEPT !.problem = u.text]
  ELSE [s EXCEPT !.pinned = u.flag]

\* the ordering of GET /api/sessions: pinned first, then newest first
Before(a, b) ==
  \/ a.pinned /\ ~b.pinned
  \/ a.pinned = b.pinned /\ a.id > b.id

RECURSIVE SortSessions(_)
SortSessions(S) ==
  IF S = {} THEN <<>>
  ELSE LET first == CHOOSE a \in S : \A b \in S \ {a} : Before(a, b)
       IN  <<first>> \o SortSessions(S \ {first})

\* GET /api/sessions
ListSessions(st) == SortSessions({st[i] : i \in DOMAIN st})

\* the database the application starts on: one earlier consultation
SeedSession ==
  NewSession(1, [name |-> <<"J">>, problem |-> NullStr, message |-> <<"q">>,
                 session_id |-> NoId], <<"r">>)

\* ------------------------------------------------------------------ state
VARIABLES
  variant,               \* which ChatComponent is mounted: "message" or "problem"
  store, nextId,         \* the session store: id -> record, and the next id
  chatHistory, currentChat, loadingHistory,          \* App
  curListed,             \* currentChat is one of the objects of chatHistory
  name, problem, message, loading, error, fieldErrors, messages,
  hasInitialSubmission, initialPatientInfo, currentSessionId,   \* ChatComponent
  renamingChatId, newChatName, deletingChat, isDeleting,        \* Sidebar
  chatReqs, refreshReqs, updateReqs, deleteReqs,     \* requests in flight
  alert,                 \* the text of the open window.alert, "" when none
  lastOp                 \* the handler that ran last (and the error it met)

storeVars == <<store, nextId>>
appVars   == <<chatHistory, currentChat, loadingHistory, curListed>>
chatVars  == <<name, problem, message, loading, error, fieldErrors, messages,
               hasInitialSubmission, initialPatientInfo, currentSessionId>>
sideVars  == <<renamingChatId, newChatName, deletingChat, isDeleting>>
netVars   == <<chatReqs, refreshReqs, updateReqs, deleteReqs>>
vars      == <<variant, storeVars, appVars, chatVars, sideVars, netVars, alert, lastOp>>

\* an optional object is a sequence of length 0 (null) or 1
Null      == <<>>
Some(x)   == <<x>>

NoFieldErrors == [name |-> FALSE, message |-> FALSE]
NoPatientInfo == [name |-> <<>>, problem |-> <<>>]

\* remove the i-th element of a sequence
RemoveAt(s, i) == SubSeq(s, 1, i - 1) \o SubSeq(s, i + 1, Len(s))

\* the number of requests awaiting their response
InFlight == Len(chatReqs) + Len(refreshReqs) + Len(updateReqs) + Len(deleteReqs)

\* App.js fetchChatHistory up to its await: the GET is issued
fetchChatHistory ==
  /\ loadingHistory' = TRUE
  /\ refreshReqs' = Append(refreshReqs, [served |-> FALSE, list |-> <<>>])

\* useState initial values, and the mount effect of App already run
Init ==
  /\ variant \in {"message", "problem"}
  /\ store = (1 :> SeedSession)
  /\ nextId = 2
  /\ chatHistory = <<>>
  /\ currentChat = Null
  /\ loadingHistory = TRUE
  /\ curListed = FALSE
  /\ name = <<>> /\ problem = <<>> /\ message = <<>>
  /\ loading = FALSE
  /\ error = ""
  /\ fieldErrors = NoFieldErrors
  /\ messages = <<>>
  /\ hasInitialSubmission = FALSE
  /\ initialPatientInfo = NoPatientInfo
  /\ currentSessionId = NoId
  /\ renamingChatId = NoId /\ newChatName = <<>>
  /\ deletingChat = Null /\ isDeleting = FALSE
  /\ chatReqs = <<>> /\ updateReqs = <<>> /\ deleteReqs = <<>>
  /\ refreshReqs = << [served |-> FALSE, list |-> <<>>] >>
  /\ alert = ""
  /\ lastOp = <<"mount">>

\* ------------------------------------------------ ChatComponent: the effect
\* index of the first "Message:" token, 0 when there is none
FirstMessageTag(c) ==
  IF \E i \in 1 .. Len(c) : c[i] = "Message:"
    THEN CHOOSE i \in 1 .. Len(c) : c[i] = "Message:" /\ \A j \in 1 .. i - 1 : c[j] # "Message:"
    ELSE 0

\* the text after the last newline
LastLine(c) ==
  IF \E i \in 1 .. Len(c) : c[i] = "NL"
    THEN LET k == CHOOSE i \in 1 .. Len(c) : c[i] = "NL" /\ \A j \in i + 1 .. Len(c) : c[j] # "NL"
         IN  SubSeq(c, k + 1, Len(c))
    ELSE c

HasToken(c, t) == \E i \in 1 .. Len(c) : c[i] = t

\* the display text of a stored user turn: /Message:\s*(.+)/s, else the last line
displayContent(c) ==
  LET k == FirstMessageTag(c) IN
  IF k > 0 /\ k < Len(c) THEN Trim(SubSeq(c, k + 1, Len(c)))
  ELSE LET lastLine == LastLine(c) IN
       IF lastLine # <<>> /\ ~HasToken(lastLine, "Patient Name:")
                          /\ ~HasToken(lastLine, "Problem:")
         THEN Trim(lastLine)
         ELSE c

\* one stored turn in display format
formatMessage(msg, chat) ==
  [ type    |-> IF msg.role = "user" THEN "user" ELSE "ai",
    content |-> IF msg.role = "user" THEN displayContent(msg.content) ELSE msg.content,
    name    |-> IF msg.role = "user" THEN OrElse(chat.patient_name, Anonymous) ELSE NullStr ]

\* (mutation of formattedMessages: the turns come out newest first)
formattedMessages_reversed(chat) ==
  [i \in 1 .. Len(chat.messages) |->
     formatMessage(chat.messages[Len(chat.messages) + 1 - i], chat)]

\* the transcript the effect builds for a selected chat
formattedMessages(chat) ==
  IF Len(chat.messages) > 0
    THEN [i \in 1 .. Len(chat.messages) |-> formatMessage(chat.messages[i], chat)]
    ELSE << [type |-> "user", content |-> OrElse(chat.additional_info, <<>>),
             name |-> OrElse(chat.patient_name, Anonymous)],
            [type |-> "ai", content |-> chat.ai_response, name |-> NullStr] >>

\* the single user/assistant pair the problem variant shows for a selected chat
legacyMessages(chat) ==
  << [type |-> "user",
      content |-> <<"Name:">> \o OrElse(chat.patient_name, Anonymous)
                    \o <<"NL", "Disease:">> \o chat.problem
                    \o (IF Truthy(chat.additional_info)
                          THEN <<"NL", "Additional Info:">> \o chat.additional_info
                          ELSE <<>>),
      name |-> OrElse(chat.patient_name, Anonymous)],
     [type |-> "ai", content |-> chat.ai_response, name |-> NullStr] >>

\* useEffect[currentChat], branch currentChat != null, message variant
effectSelected(chat) ==
  /\ name' = OrElse(chat.patient_name, <<>>)
  /\ problem' = OrElse(chat.problem, <<>>)
  /\ message' = <<>>
  /\ initialPatientInfo' = [name    |-> OrElse(chat.patient_name, Anonymous),
                            problem |-> OrElse(chat.problem, NoDisease)]
  /\ hasInitialSubmission' = TRUE
  /\ currentSessionId' = chat.id
  /\ messages' = formattedMessages(chat)
  /\ UNCHANGED <<loading, error, fieldErrors>>

\* useEffect[currentChat], branch currentChat == null, message variant
effectCleared ==
  /\ name' = <<>> /\ problem' = <<>> /\ message' = <<>>
  /\ messages' = <<>>
  /\ error' = ""
  /\ fieldErrors' = NoFieldErrors
  /\ loading' = FALSE
  /\ hasInitialSubmission' = FALSE
  /\ initialPatientInfo' = NoPatientInfo
  /\ currentSessionId' = NoId

\* the same two branches of the problem variant
legacyEffectSelected(chat) ==
  /\ name' = OrElse(chat.patient_name, <<>>)
  /\ problem' = OrElse(chat.problem, <<>>)
  /\ message' = OrElse(chat.additional_info, <<>>)
  /\ messages' = legacyMessages(chat)
  /\ UNCHANGED <<loading, error, fieldErrors, hasInitialSubmission,
                 initialPatientInfo, currentSessionId>>

legacyEffectCleared ==
  /\ name' = <<>> /\ problem' = <<>> /\ message' = <<>>
  /\ messages' = <<>>
  /\ error' = ""
  /\ fieldErrors' = NoFieldErrors
  /\ UNCHANGED <<loading, hasInitialSubmission, initialPatientInfo, currentSessionId>>

\* React re-runs the effect only when the currentChat prop is a different value
\* (Object.is): newCur and newListed are the values App has just set
currentChatEffect(newCur, newListed) ==
  IF newCur = Null /\ currentChat = Null THEN UNCHANGED chatVars
  ELSE IF newCur # Null /\ currentChat # Null /\ newListed /\ curListed
          /\ newCur[1].id = currentChat[1].id THEN UNCHANGED chatVars
  ELSE IF newCur = Null
    THEN (IF variant = "message" THEN effectCleared ELSE legacyEffectCleared)
    ELSE (IF variant = "message" THEN effectSelected(newCur[1])
          ELSE legacyEffectSelected(newCur[1]))

\* ------------------------------------------- ChatComponent: the form inputs
\* onChange of the name input (rendered while the name/problem fields show)
setNameInput(v) ==
  /\ alert = "" /\ ~loading
  /\ variant = "message" => ~hasInitialSubmission
  /\ name' = v
  /\ IF fieldErrors.name
       THEN fieldErrors' = [fieldErrors EXCEPT !.name = FALSE] /\ error' = ""
       ELSE UNCHANGED <<fieldErrors, error>>
  /\ lastOp' = <<"setName">>
  /\ UNCHANGED <<variant, storeVars, appVars, sideVars, netVars, alert, problem, message,
                 loading, messages, hasInitialSubmission, initialPatientInfo,
                 currentSessionId>>

\* onChange of the problem input; the problem variant also clears its error
setProblemInput(v) ==
  /\ alert = "" /\ ~loading
  /\ variant = "message" => ~hasInitialSubmission
  /\ problem' = v
  /\ IF variant = "problem" /\ fieldErrors.message
       THEN fieldErrors' = [fieldErrors EXCEPT !.message = FALSE] /\ error' = ""
       ELSE UNCHANGED <<fieldErrors, error>>
  /\ lastOp' = <<"setProblem">>
  /\ UNCHANGED <<variant, storeVars, appVars, sideVars, netVars, alert, name, message,
                 loading, messages, hasInitialSubmission, initialPatientInfo,
                 currentSessionId>>

\* onChange of the message textarea; the message variant also clears its error
setMessageInput(v) ==
  /\ alert = "" /\ ~loading
  /\ message' = v
  /\ IF variant = "message" /\ fieldErrors.message
       THEN fieldErrors' = [fieldErrors EXCEPT !.message = FALSE] /\ error' = ""
       ELSE UNCHANGED <<fieldErrors, error>>
  /\ lastOp' = <<"setMessage">>
  /\ UNCHANGED <<variant, storeVars, appVars, sideVars, netVars, alert, name, problem,
                 loading, messages, hasInitialSubmission, initialPatientInfo,
                 currentSessionId>>

\* ------------------------------------------- ChatComponent: handleSubmit
\* (mutation of nameMissing: the trim is forgotten)
nameMissing_untrimmed(n) == n = <<>>

\* !name.trim()
nameMissing(n) == Trim(n) = <<>>

\* (mutation of messageMissing: the trim is forgotten)
messageMissing_untrimmed(m) == m = <<>>

\* !message.trim()
messageMissing(m) == Trim(m) = <<>>

\* !problem.trim()
problemMissing(p) == Trim(p) = <<>>

NameRequiredMsg     == "Please enter your name"
QuestionRequiredMsg == "Please enter your question or message"
SymptomsRequiredMsg == "Please describe your medical issue or symptoms"
DiseaseRequiredMsg  == "Please describe your disease or medical problem"

\* (mutation of patientName: the name input is sent on every turn)
patientName_fromInput == OrElse(Trim(name), Anonymous)

\* the name sent with a turn
patientName ==
  IF hasInitialSubmission THEN initialPatientInfo.name
  ELSE OrElse(Trim(name), Anonymous)

\* (mutation of patientProblem: the placeholder is sent as it is shown)
patientProblem_unconverted ==
  IF hasInitialSubmission THEN initialPatientInfo.problem
  ELSE OrElse(Trim(problem), NullStr)

\* the problem sent with a turn
patientProblem ==
  IF hasInitialSubmission
    THEN (IF initialPatientInfo.problem # NoDisease THEN initialPatientInfo.problem
          ELSE NullStr)
    ELSE OrElse(Trim(problem), NullStr)

\* the session_id of the request, NoId when the field is left out
requestSessionId ==
  IF hasInitialSubmission /\ currentSessionId # NoId THEN currentSessionId ELSE NoId

\* the body of POST /api/chat
chatData ==
  [ name |-> patientName, problem |-> patientProblem, message |-> Trim(message),
    session_id |-> requestSessionId ]

\* the body the problem variant posts
legacyChatData ==
  [ name |-> OrElse(Trim(name), Anonymous), problem |-> Trim(problem),
    message |-> OrElse(Trim(message), NullStr), session_id |-> NoId ]

\* the turn shown for the user's own message
userMessage ==
  [ type |-> "user", content |-> Trim(message),
    name |-> IF hasInitialSubmission THEN initialPatientInfo.name
             ELSE OrElse(Trim(name), Anonymous) ]

\* what the continuation of handleSubmit reads after its await, as the render
\* that issued the request saw it: name and problem are read only on a first
\* submission, message only by the problem variant
submitClosure ==
  [ isFirstSubmission |-> ~hasInitialSubmission,
    name              |-> IF variant = "problem" \/ ~hasInitialSubmission THEN name ELSE <<>>,
    problem           |-> IF variant = "problem" \/ ~hasInitialSubmission THEN problem ELSE <<>>,
    message           |-> IF variant = "problem" THEN message ELSE <<>>,
    currentSessionId  |-> currentSessionId ]

\* name validation failed: error shown, nothing sent
submitNameMissing ==
  /\ error' = NameRequiredMsg
  /\ fieldErrors' = [name |-> TRUE, message |-> FALSE]
  /\ lastOp' = <<"submitNameMissing">>
  /\ UNCHANGED <<name, problem, message, loading, messages, hasInitialSubmission,
                 initialPatientInfo, currentSessionId, netVars>>

\* message validation failed: error shown, nothing sent
submitMessageMissing ==
  /\ error' = (IF hasInitialSubmission THEN QuestionRequiredMsg ELSE SymptomsRequiredMsg)
  /\ fieldErrors' = [name |-> FALSE, message |-> TRUE]
  /\ lastOp' = <<"submitMessageMissing">>
  /\ UNCHANGED <<name, problem, message, loading, messages, hasInitialSubmission,
                 initialPatientInfo, currentSessionId, netVars>>

\* (mutation of submitSend: the user's turn is not appended before the request)
submitSend_noAppend ==
  /\ error' = ""
  /\ fieldErrors' = NoFieldErrors
  /\ loading' = TRUE
  /\ chatReqs' = Append(chatReqs, [data |-> chatData, closure |-> submitClosure])
  /\ lastOp' = <<"submitSend">>
  /\ UNCHANGED <<name, problem, message, messages, hasInitialSubmission,
                 initialPatientInfo, currentSessionId, refreshReqs, updateReqs, deleteReqs>>

\* validation passed: optimistic append, then the POST is issued
submitSend ==
  /\ error' = ""
  /\ fieldErrors' = NoFieldErrors
  /\ loading' = TRUE
  /\ messages' = Append(messages, userMessage)
  /\ chatReqs' = Append(chatReqs, [data |-> chatData, closure |-> submitClosure])
  /\ lastOp' = <<"submitSend">>
  /\ UNCHANGED <<name, problem, message, hasInitialSubmission, initialPatientInfo,
                 currentSessionId, refreshReqs, updateReqs, deleteReqs>>

\* handleSubmit of the message variant up to its await
handleSubmit ==
  /\ alert = "" /\ ~loading
  /\ variant = "message"
  /\ IF ~hasInitialSubmission /\ nameMissing(name) THEN submitNameMissing
     ELSE IF messageMissing(message) THEN submitMessageMissing
     ELSE submitSend
  /\ UNCHANGED <<variant, storeVars, appVars, sideVars, alert>>

\* problem validation of the problem variant failed
legacySubmitProblemMissing ==
  /\ error' = DiseaseRequiredMsg
  /\ fieldErrors' = [name |-> FALSE, message |-> TRUE]
  /\ lastOp' = <<"submitProblemMissing">>
  /\ UNCHANGED <<name, problem, message, loading, messages, hasInitialSubmission,
                 initialPatientInfo, currentSessionId, netVars>>

\* the problem variant sends without touching the transcript
legacySubmitSend ==
  /\ error' = ""
  /\ fieldErrors' = NoFieldErrors
  /\ loading' = TRUE
  /\ chatReqs' = Append(chatReqs, [data |-> legacyChatData, closure |-> submitClosure])
  /\ lastOp' = <<"submitSend">>
  /\ UNCHANGED <<name, problem, message, messages, hasInitialSubmission,
                 initialPatientInfo, currentSessionId, refreshReqs, updateReqs,
                 deleteReqs>>

\* handleSubmit of the problem variant up to its await
legacyHandleSubmit ==
  /\ alert = "" /\ ~loading
  /\ variant = "problem"
  /\ IF nameMissing(name) THEN submitNameMissing
     ELSE IF problemMissing(problem) THEN legacySubmitProblemMissing
     ELSE legacySubmitSend
  /\ UNCHANGED <<variant, storeVars, appVars, sideVars, alert>>

\* ------------------------------------- the store answering POST /api/chat
\* the session id the request r is served under
servedId(r) == IF r.data.session_id = NoId THEN nextId ELSE r.data.session_id

\* the follow-up turns the store holds
RECURSIVE FollowUps(_)
FollowUps(st) ==
  IF DOMAIN st = {} THEN 0
  ELSE LET k == CHOOSE k \in DOMAIN st : TRUE
       IN  (Len(st[k].messages) - 2) \div 2
             + FollowUps([j \in DOMAIN st \ {k} |-> st[j]])

\* the store can serve r: it creates a session, or the session still exists
canServe(r) == r.data.session_id # NoId => r.data.session_id \in DOMAIN store

\* the store after serving r with the reply ai
serveChat(r, ai) ==
  IF r.data.session_id = NoId
    THEN /\ store' = store @@ (nextId :> NewSession(nextId, r.data, ai))
         /\ nextId' = nextId + 1
    ELSE /\ store' = [store EXCEPT ![r.data.session_id] = AppendTurn(@, r.data, ai)]
         /\ UNCHANGED nextId

\* ------------------------------- ChatComponent: handleSubmit after its await
\* response.id || response._id || null
responseSessionId(resp) == resp.id

\* (mutation of responseText: the fallback to '' is left out)
responseText_raw(resp) == resp.ai_response

\* response.ai_response || ''
responseText(resp) == OrElse(resp.ai_response, <<>>)

\* (mutation of boundSessionId: the id of the response is dropped)
boundSessionId_dropped(r, resp) == currentSessionId

\* the session id state after the response of request r
boundSessionId(r, resp) ==
  IF r.closure.isFirstSubmission THEN responseSessionId(resp)
  ELSE IF responseSessionId(resp) # NoId
          /\ responseSessionId(resp) # r.closure.currentSessionId
         THEN responseSessionId(resp)
         ELSE currentSessionId

\* (mutation of submitThen: the assistant turn is put in front of the transcript)
submitThen_prepend(r, resp) ==
  /\ messages' = <<[type |-> "ai", content |-> responseText(resp), name |-> NullStr]>>
                    \o messages
  /\ IF r.closure.isFirstSubmission
       THEN /\ initialPatientInfo' =
                 [name    |-> OrElse(Trim(r.closure.name), Anonymous),
                  problem |-> OrElse(Trim(r.closure.problem), NoDisease)]
            /\ hasInitialSubmission' = TRUE
       ELSE UNCHANGED <<initialPatientInfo, hasInitialSubmission>>
  /\ currentSessionId' = boundSessionId(r, resp)
  /\ fetchChatHistory
  /\ message' = <<>>
  /\ loading' = FALSE
  /\ UNCHANGED <<name, problem, error, fieldErrors>>

\* the success path of the message variant, finally block included
submitThen(r, resp) ==
  /\ messages' = Append(messages, [type |-> "ai", content |-> responseText(resp),
                                   name |-> NullStr])
  /\ IF r.closure.isFirstSubmission
       THEN /\ initialPatientInfo' =
                 [name    |-> OrElse(Trim(r.closure.name), Anonymous),
                  problem |-> OrElse(Trim(r.closure.problem), NoDisease)]
            /\ hasInitialSubmission' = TRUE
       ELSE UNCHANGED <<initialPatientInfo, hasInitialSubmission>>
  /\ currentSessionId' = boundSessionId(r, resp)
  /\ fetchChatHistory
  /\ message' = <<>>
  /\ loading' = FALSE
  /\ UNCHANGED <<name, problem, error, fieldErrors>>

\* the success path of the problem variant, finally block included
legacySubmitThen(r, resp) ==
  /\ messages' = messages \o
       << [type |-> "user",
           content |-> <<"Name:">> \o Trim(r.closure.name) \o <<"NL", "Disease:">>
                         \o Trim(r.closure.problem)
                         \o (IF Trim(r.closure.message) # <<>>
                               THEN <<"NL", "Additional Info:">> \o Trim(r.closure.message)
                               ELSE <<>>),
           name |-> Trim(r.closure.name)],
          [type |-> "ai", content |-> resp.ai_response, name |-> NullStr] >>
  /\ fetchChatHistory
  /\ name' = <<>> /\ problem' = <<>> /\ message' = <<>>
  /\ loading' = FALSE
  /\ UNCHANGED <<error, fieldErrors, hasInitialSubmission, initialPatientInfo,
                 currentSessionId>>

\* (mutation of submitCatch: the optimistic turn is rolled back)
submitCatch_rollback(e) ==
  /\ error' = createChatError(e)
  /\ loading' = FALSE
  /\ messages' = SubSeq(messages, 1, Len(messages) - 1)
  /\ UNCHANGED <<name, problem, message, hasInitialSubmission,
                 initialPatientInfo, currentSessionId>>

\* (mutation of submitCatch: the message field is cleared on failure too)
submitCatch_clears(e) ==
  /\ error' = createChatError(e)
  /\ loading' = FALSE
  /\ message' = <<>>
  /\ UNCHANGED <<name, problem, messages, hasInitialSubmission,
                 initialPatientInfo, currentSessionId>>

\* the catch and finally blocks of handleSubmit (both variants)
submitCatch(e) ==
  /\ error' = createChatError(e)
  /\ loading' = FALSE
  /\ UNCHANGED <<name, problem, message, messages, hasInitialSubmission,
                 initialPatientInfo, currentSessionId>>

\* the POST of request i succeeds: the store serves it, the continuation runs
chatSucceeds(i, ai) ==
  /\ alert = ""
  /\ i \in 1 .. Len(chatReqs)
  /\ canServe(chatReqs[i])
  /\ LET r    == chatReqs[i]
         resp == [id |-> servedId(r), ai_response |-> ai]
     IN  /\ serveChat(r, ai)
         /\ IF variant = "message" THEN submitThen(r, resp)
            ELSE legacySubmitThen(r, resp)
  /\ chatReqs' = RemoveAt(chatReqs, i)
  /\ lastOp' = <<"chatSucceeds">>
  /\ UNCHANGED <<variant, chatHistory, currentChat, curListed, sideVars, updateReqs,
                 deleteReqs, alert>>

\* the POST of request i fails with the axios error e; the store is untouched
chatFails(i, e) ==
  /\ alert = ""
  /\ i \in 1 .. Len(chatReqs)
  /\ submitCatch(e)
  /\ chatReqs' = RemoveAt(chatReqs, i)
  /\ lastOp' = <<"chatFails", e.code, e>>
  /\ UNCHANGED <<variant, storeVars, appVars, sideVars, refreshReqs, updateReqs,
                 deleteReqs, alert, fieldErrors>>

\* ------------------------------------------------------------------- App
\* handleNewChat: setCurrentChat(null)
handleNewChat ==
  /\ alert = ""
  /\ currentChat' = Null
  /\ curListed' = FALSE
  /\ currentChatEffect(Null, FALSE)
  /\ lastOp' = <<"newChat">>
  /\ UNCHANGED <<variant, storeVars, chatHistory, loadingHistory, sideVars, netVars, alert>>

\* the row of chat i is rendered as a selectable button
rowShown(i) == ~loadingHistory /\ i \in 1 .. Len(chatHistory)

\* handleSelectChat: setCurrentChat(chat) for row i of the sidebar
handleSelectChat(i) ==
  /\ alert = ""
  /\ rowShown(i)
  /\ renamingChatId # chatHistory[i].id
  /\ currentChat' = Some(chatHistory[i])
  /\ curListed' = TRUE
  /\ currentChatEffect(Some(chatHistory[i]), TRUE)
  /\ lastOp' = <<"selectChat">>
  /\ UNCHANGED <<variant, storeVars, chatHistory, loadingHistory, sideVars, netVars, alert>>

\* the store answers GET /api/sessions for refresh i
refreshServed(i) ==
  /\ i \in 1 .. Len(refreshReqs)
  /\ ~refreshReqs[i].served
  /\ refreshReqs' = [refreshReqs EXCEPT ![i] = [served |-> TRUE, list |-> ListSessions(store)]]
  /\ lastOp' = <<"refreshServed">>
  /\ UNCHANGED <<variant, storeVars, appVars, chatVars, sideVars, chatReqs, updateReqs,
                 deleteReqs, alert>>

\* (mutation of fetchThen: the client puts the response in its own order)
fetchThen_reversed(list) ==
  /\ chatHistory' = [i \in 1 .. Len(list) |-> list[Len(list) + 1 - i]]
  /\ loadingHistory' = FALSE

\* (mutation of fetchThen: the response is merged into the cached list)
fetchThen_merge(list) ==
  /\ chatHistory' = chatHistory \o list
  /\ loadingHistory' = FALSE

\* fetchChatHistory, try branch after the await
fetchThen(list) ==
  /\ chatHistory' = list
  /\ loadingHistory' = FALSE

\* (mutation of fetchCatch: the stale list is kept)
fetchCatch_stale ==
  /\ chatHistory' = chatHistory
  /\ loadingHistory' = FALSE

\* fetchChatHistory, catch branch and finally
fetchCatch ==
  /\ chatHistory' = <<>>
  /\ loadingHistory' = FALSE

\* the response of refresh i arrives
refreshSucceeds(i) ==
  /\ alert = ""
  /\ i \in 1 .. Len(refreshReqs)
  /\ refreshReqs[i].served
  /\ fetchThen(refreshReqs[i].list)
  /\ curListed' = FALSE
  /\ refreshReqs' = RemoveAt(refreshReqs, i)
  /\ lastOp' = <<"refreshSucceeds">>
  /\ UNCHANGED <<variant, storeVars, currentChat, chatVars, sideVars, chatReqs,
                 updateReqs, deleteReqs, alert>>

\* refresh i fails with the axios error e
refreshFails(i, e) ==
  /\ alert = ""
  /\ i \in 1 .. Len(refreshReqs)
  /\ fetchCatch
  /\ curListed' = FALSE
  /\ refreshReqs' = RemoveAt(refreshReqs, i)
  /\ lastOp' = <<"refreshFails", e.code>>
  /\ UNCHANGED <<variant, storeVars, currentChat, chatVars, sideVars, chatReqs,
                 updateReqs, deleteReqs, alert>>

\* -------------------------------------------------------------- Sidebar
\* the rename input of the row being renamed is on screen
renameShown ==
  /\ ~loadingHistory
  /\ renamingChatId # NoId
  /\ \E i \in 1 .. Len(chatHistory) : chatHistory[i].id = renamingChatId

\* handleRename: the row of chat i goes into rename mode
handleRename(i) ==
  /\ alert = ""
  /\ rowShown(i)
  /\ renamingChatId' = chatHistory[i].id
  /\ newChatName' = OrElse(chatHistory[i].problem, UntitledChat)
  /\ lastOp' = <<"rename">>
  /\ UNCHANGED <<variant, storeVars, appVars, chatVars, deletingChat, isDeleting,
                 netVars, alert>>

\* onChange of the rename input
setNewChatName(v) ==
  /\ alert = ""
  /\ renameShown
  /\ newChatName' = v
  /\ lastOp' = <<"setNewChatName">>
  /\ UNCHANGED <<variant, storeVars, appVars, chatVars, renamingChatId, deletingChat,
                 isDeleting, netVars, alert>>

\* (mutation of renameProvided: the trim is forgotten)
renameProvided_untrimmed(t) == t # <<>>

\* newChatName.trim() is truthy
renameProvided(t) == Trim(t) # <<>>

\* (mutation of renameUpdate: the title is sent as typed)
renameUpdate_untrimmed(t) == [field |-> "problem", text |-> t, flag |-> FALSE]

\* the body of the PATCH a rename sends
renameUpdate(t) == [field |-> "problem", text |-> Trim(t), flag |-> FALSE]

\* the body of the PATCH a pin toggle sends
pinUpdate(chat) == [field |-> "pinned", text |-> <<>>, flag |-> ~chat.pinned]

\* handleChatUpdate up to its await: the PATCH is issued
issueUpdate(id, u, from) ==
  /\ updateReqs' = Append(updateReqs, [id |-> id, update |-> u, origin |-> from])

\* handleSaveRename up to its await
handleSaveRename ==
  /\ alert = ""
  /\ renameShown
  /\ IF renameProvided(newChatName)
       THEN /\ issueUpdate(renamingChatId, renameUpdate(newChatName), "rename")
            /\ lastOp' = <<"saveRenameSend">>
            /\ UNCHANGED <<renamingChatId, newChatName>>
       ELSE /\ renamingChatId' = NoId
            /\ newChatName' = <<>>
            /\ lastOp' = <<"saveRenameEmpty">>
            /\ UNCHANGED updateReqs
  /\ UNCHANGED <<variant, storeVars, appVars, chatVars, deletingChat, isDeleting,
                 chatReqs, refreshReqs, deleteReqs, alert>>

\* handleCancelRename, also the click outside the row
handleCancelRename ==
  /\ alert = ""
  /\ renamingChatId # NoId
  /\ renamingChatId' = NoId
  /\ newChatName' = <<>>
  /\ lastOp' = <<"cancelRename">>
  /\ UNCHANGED <<variant, storeVars, appVars, chatVars, deletingChat, isDeleting,
                 netVars, alert>>

\* handlePin up to its await
handlePin(i) ==
  /\ alert = ""
  /\ rowShown(i)
  /\ issueUpdate(chatHistory[i].id, pinUpdate(chatHistory[i]), "pin")
  /\ lastOp' = <<"pin">>
  /\ UNCHANGED <<variant, storeVars, appVars, chatVars, sideVars, chatReqs, refreshReqs,
                 deleteReqs, alert>>

\* (mutation of updateSucceeds: the refresh after the PATCH is left out)
updateSucceeds_noRefresh(i) ==
  /\ alert = ""
  /\ i \in 1 .. Len(updateReqs)
  /\ updateReqs[i].id \in DOMAIN store
  /\ store' = [store EXCEPT ![updateReqs[i].id] = ApplyUpdate(@, updateReqs[i].update)]
  /\ IF updateReqs[i].origin = "rename"
       THEN renamingChatId' = NoId /\ newChatName' = <<>>
       ELSE UNCHANGED <<renamingChatId, newChatName>>
  /\ updateReqs' = RemoveAt(updateReqs, i)
  /\ lastOp' = <<"updateSucceeds">>
  /\ UNCHANGED <<variant, nextId, chatHistory, currentChat, curListed, chatVars,
                 deletingChat, isDeleting, chatReqs, deleteReqs, alert, refreshReqs,
                 loadingHistory>>

\* the PATCH of update i succeeds: merge in the store, refresh, rename mode closed
updateSucceeds(i) ==
  /\ alert = ""
  /\ i \in 1 .. Len(updateReqs)
  /\ updateReqs[i].id \in DOMAIN store
  /\ store' = [store EXCEPT ![updateReqs[i].id] = ApplyUpdate(@, updateReqs[i].update)]
  /\ fetchChatHistory
  /\ IF updateReqs[i].origin = "rename"
       THEN renamingChatId' = NoId /\ newChatName' = <<>>
       ELSE UNCHANGED <<renamingChatId, newChatName>>
  /\ updateReqs' = RemoveAt(updateReqs, i)
  /\ lastOp' = <<"updateSucceeds">>
  /\ UNCHANGED <<variant, nextId, chatHistory, currentChat, curListed, chatVars,
                 deletingChat, isDeleting, chatReqs, deleteReqs, alert>>

\* (mutation of updateFails: the error is swallowed, the rename mode closes)
updateFails_swallowed(i, e) ==
  /\ alert = ""
  /\ i \in 1 .. Len(updateReqs)
  /\ alert' = updateAlert(e)
  /\ IF updateReqs[i].origin = "rename"
       THEN renamingChatId' = NoId /\ newChatName' = <<>>
       ELSE UNCHANGED <<renamingChatId, newChatName>>
  /\ updateReqs' = RemoveAt(updateReqs, i)
  /\ lastOp' = <<"updateFails", e.code>>
  /\ UNCHANGED <<variant, storeVars, appVars, chatVars, deletingChat, isDeleting,
                 chatReqs, refreshReqs, deleteReqs>>

\* the PATCH of update i fails: alert, re-throw, the caller only logs
updateFails(i, e) ==
  /\ alert = ""
  /\ i \in 1 .. Len(updateReqs)
  /\ alert' = updateAlert(e)
  /\ updateReqs' = RemoveAt(updateReqs, i)
  /\ lastOp' = <<"updateFails", e.code>>
  /\ UNCHANGED <<variant, storeVars, appVars, chatVars, sideVars, chatReqs, refreshReqs,
                 deleteReqs>>

\* (mutation of handleDelete: the DELETE is sent without the modal)
handleDelete_unconfirmed(i) ==
  /\ alert = ""
  /\ ~loadingHistory /\ i \in 1 .. Len(chatHistory)
  /\ deleteReqs' = Append(deleteReqs, [id |-> chatHistory[i].id, currentChat |-> currentChat])
  /\ lastOp' = <<"delete">>
  /\ UNCHANGED <<variant, storeVars, appVars, chatVars, sideVars, chatReqs, refreshReqs,
                 updateReqs, alert>>

\* handleDelete: opens the confirmation modal for row i
handleDelete(i) ==
  /\ alert = ""
  /\ rowShown(i)
  /\ deletingChat' = Some(chatHistory[i])
  /\ lastOp' = <<"delete">>
  /\ UNCHANGED <<variant, storeVars, appVars, chatVars, renamingChatId, newChatName,
                 isDeleting, netVars, alert>>

\* handleConfirmDelete up to the await inside handleChatDelete
handleConfirmDelete ==
  /\ alert = ""
  /\ deletingChat # Null
  /\ ~isDeleting
  /\ isDeleting' = TRUE
  /\ deleteReqs' = Append(deleteReqs, [id |-> deletingChat[1].id, currentChat |-> currentChat])
  /\ lastOp' = <<"confirmDelete">>
  /\ UNCHANGED <<variant, storeVars, appVars, chatVars, renamingChatId, newChatName,
                 deletingChat, chatReqs, refreshReqs, updateReqs, alert>>

\* handleCancelDelete: the cancel button or a click on the backdrop
handleCancelDelete ==
  /\ alert = ""
  /\ deletingChat # Null
  /\ deletingChat' = Null
  /\ isDeleting' = FALSE
  /\ lastOp' = <<"cancelDelete">>
  /\ UNCHANGED <<variant, storeVars, appVars, chatVars, renamingChatId, newChatName,
                 netVars, alert>>

\* handleEscape: the Escape key while the modal is open
handleEscape ==
  /\ alert = ""
  /\ deletingChat # Null
  /\ deletingChat' = Null
  /\ isDeleting' = FALSE
  /\ lastOp' = <<"escape">>
  /\ UNCHANGED <<variant, storeVars, appVars, chatVars, renamingChatId, newChatName,
                 netVars, alert>>

\* (mutation of deletedIsCurrent: any open chat counts as the deleted one)
deletedIsCurrent_anyOpen(r) == r.currentChat # Null

\* handleChatDelete's test on the currentChat it closed over
deletedIsCurrent(r) == r.currentChat # Null /\ r.currentChat[1].id = r.id

\* the DELETE of request i succeeds
deleteSucceeds(i) ==
  /\ alert = ""
  /\ i \in 1 .. Len(deleteReqs)
  /\ deleteReqs[i].id \in DOMAIN store
  /\ store' = [k \in DOMAIN store \ {deleteReqs[i].id} |-> store[k]]
  /\ IF deletedIsCurrent(deleteReqs[i])
       THEN /\ currentChat' = Null
            /\ curListed' = FALSE
            /\ currentChatEffect(Null, FALSE)
       ELSE UNCHANGED <<currentChat, curListed, chatVars>>
  /\ fetchChatHistory
  /\ deletingChat' = Null
  /\ isDeleting' = FALSE
  /\ deleteReqs' = RemoveAt(deleteReqs, i)
  /\ lastOp' = <<"deleteSucceeds">>
  /\ UNCHANGED <<variant, nextId, chatHistory, renamingChatId, newChatName, chatReqs,
                 updateReqs, alert>>

\* the DELETE of request i fails: alert, re-throw, the modal is closed
deleteFails(i, e) ==
  /\ alert = ""
  /\ i \in 1 .. Len(deleteReqs)
  /\ alert' = deleteAlert(e)
  /\ deletingChat' = Null
  /\ isDeleting' = FALSE
  /\ deleteReqs' = RemoveAt(deleteReqs, i)
  /\ lastOp' = <<"deleteFails", e.code>>
  /\ UNCHANGED <<variant, storeVars, appVars, chatVars, renamingChatId, newChatName,
                 chatReqs, refreshReqs, updateReqs>>

\* the user closes the alert box
dismissAlert ==
  /\ alert # ""
  /\ alert' = ""
  /\ lastOp' = <<"dismissAlert">>
  /\ UNCHANGED <<variant, storeVars, appVars, chatVars, sideVars, netVars>>

\* ------------------------------------------------------------ specification
\* The exploration is bounded in the successor state: at most n requests
\* outstanding, MaxSessions ids assigned, MaxFollowUps follow-up turns stored,
\* MaxMsgs turns in the local transcript when a turn is submitted.
Within(n) ==
  /\ InFlight' <= n
  /\ nextId' <= MaxSessions + 1
  /\ FollowUps(store') <= MaxFollowUps
  /\ Len(messages') <= MaxMsgs + 1

\* every handler of the application
Step ==
  \/ \E v \in NameInputs : setNameInput(v)
  \/ \E v \in ProblemInputs : setProblemInput(v)
  \/ \E v \in MessageInputs : setMessageInput(v)
  \/ handleSubmit
  \/ legacyHandleSubmit
  \/ \E i \in Reqs, ai \in AiResponses : chatSucceeds(i, ai)
  \/ \E i \in Reqs, e \in StoreErrors : chatFails(i, e)
  \/ handleNewChat
  \/ \E i \in Ids : handleSelectChat(i)
  \/ \E i \in Reqs : refreshServed(i)
  \/ \E i \in Reqs : refreshSucceeds(i)
  \/ \E i \in Reqs, e \in StoreErrors : refreshFails(i, e)
  \/ \E i \in Ids : handleRename(i)
  \/ \E v \in RenameInputs : setNewChatName(v)
  \/ handleSaveRename
  \/ handleCancelRename
  \/ \E i \in Ids : handlePin(i)
  \/ \E i \in Reqs : updateSucceeds(i)
  \/ \E i \in Reqs, e \in StoreErrors : updateFails(i, e)
  \/ \E i \in Ids : handleDelete(i)
  \/ handleConfirmDelete
  \/ handleCancelDelete
  \/ handleEscape
  \/ \E i \in Reqs : deleteSucceeds(i)
  \/ \E i \in Reqs, e \in StoreErrors : deleteFails(i, e)
  \/ dismissAlert

Next == Step /\ Within(MaxInFlight)

Spec == Init /\ [][Next]_vars

\* The conversation alone: the form, handleSubmit, new chat and selection,
\* with the history refreshes they trigger, one request at a time.
ChatStep ==
  \/ \E v \in NameInputs : setNameInput(v)
  \/ \E v \in ProblemInputs : setProblemInput(v)
  \/ \E v \in MessageInputs : setMessageInput(v)
  \/ handleSubmit
  \/ legacyHandleSubmit
  \/ \E i \in Reqs : chatSucceeds(i, <<"r">>)
  \/ \E i \in Reqs, e \in StoreErrors : chatFails(i, e)
  \/ handleNewChat
  \/ \E i \in Ids : handleSelectChat(i)
  \/ \E i \in Reqs : refreshServed(i)
  \/ \E i \in Reqs : refreshSucceeds(i)
  \/ \E i \in Reqs, e \in StoreErrors : refreshFails(i, e)

NextChat == ChatStep /\ Within(MaxSequential)

SpecChat == Init /\ [][NextChat]_vars

\* Deleting around a conversation of the message variant: a first turn, new
\* chat and selection, and the delete modal with its store call.
InitMessage == Init /\ variant = "message"

DeleteStep ==
  \/ \E v \in NameInputs : setNameInput(v)
  \/ \E v \in MessageInputs : setMessageInput(v)
  \/ handleSubmit
  \/ \E i \in Reqs : chatSucceeds(i, <<"r">>)
  \/ handleNewChat
  \/ \E i \in Ids : handleSelectChat(i)
  \/ \E i \in Reqs : refreshServed(i)
  \/ \E i \in Reqs : refreshSucceeds(i)
  \/ \E i \in Ids : handleDelete(i)
  \/ handleConfirmDelete
  \/ handleCancelDelete
  \/ handleEscape
  \/ \E i \in Reqs : deleteSucceeds(i)
  \/ \E i \in Reqs, e \in StoreErrors : deleteFails(i, e)
  \/ dismissAlert

NextDelete == DeleteStep /\ Within(MaxSequential)

SpecDelete == InitMessage /\ [][NextDelete]_vars

\* The sidebar alone: rename, pin and delete on the listed sessions, new chat
\* and selection, and the history refreshes.
SideStep ==
  \/ handleNewChat
  \/ \E i \in Ids : handleSelectChat(i)
  \/ \E i \in Reqs : refreshServed(i)
  \/ \E i \in Reqs : refreshSucceeds(i)
  \/ \E i \in Reqs, e \in StoreErrors : refreshFails(i, e)
  \/ \E i \in Ids : handleRename(i)
  \/ \E v \in RenameInputs : setNewChatName(v)
  \/ handleSaveRename
  \/ handleCancelRename
  \/ \E i \in Ids : handlePin(i)
  \/ \E i \in Reqs : updateSucceeds(i)
  \/ \E i \in Reqs, e \in StoreErrors : updateFails(i, e)
  \/ \E i \in Ids : handleDelete(i)
  \/ handleConfirmDelete
  \/ handleCancelDelete
  \/ handleEscape
  \/ \E i \in Reqs : deleteSucceeds(i)
  \/ \E i \in Reqs, e \in StoreErrors : deleteFails(i, e)
  \/ dismissAlert

NextSide == SideStep /\ Within(MaxSequential)

SpecSide == Init /\ [][NextSide]_vars

\* ================================================================ claims
\* empty or made of whitespace only
IsBlank(s) == \A i \in 1 .. Len(s) : s[i] \in {" ", "NL"}

\* the step is a run of handleSubmit
SubmitOps == {"submitNameMissing", "submitMessageMissing", "submitProblemMissing",
              "submitSend"}

\* the conversation state UNINITIALIZED
Uninitialized ==
  /\ name = <<>> /\ problem = <<>> /\ message = <<>>
  /\ messages = <<>>
  /\ currentSessionId = NoId
  /\ ~hasInitialSubmission

C2_ActiveRequest ==
  [][ (lastOp'[1] = "submitSend" /\ hasInitialSubmission)
        => /\ Len(chatReqs') = Len(chatReqs) + 1
           /\ LET d == chatReqs'[Len(chatReqs')].data
              IN  /\ d.session_id # NoId
                  /\ d.session_id = currentSessionId
                  /\ d.name = initialPatientInfo.name
                  /\ d.problem = (IF initialPatientInfo.problem = NoDisease THEN NullStr
                                  ELSE initialPatientInfo.problem) ]_vars

C2_Witness ==
  /\ lastOp = <<"submitSend">>
  /\ hasInitialSubmission
  /\ currentChat # Null
  /\ chatReqs # <<>>
  /\ chatReqs[1].data.session_id = currentSessionId
  /\ currentSessionId # NoId

\* C3: when the store has deleted the session the conversation is bound to,
\* and the conversation was not navigated since the delete was confirmed, the
\* conversation is UNINITIALIZED after the step.
C3_DeleteActiveResets ==
  [][ (/\ lastOp'[1] = "deleteSucceeds"
       /\ Len(deleteReqs) = 1
       /\ deleteReqs[1].currentChat = currentChat
       /\ hasInitialSubmission
       /\ currentSessionId = deleteReqs[1].id
       /\ currentSessionId \notin DOMAIN store')
        => Uninitialized' ]_vars

\* C4: after the New chat action the conversation is UNINITIALIZED.
C4_NewChatResets == lastOp = <<"newChat">> => Uninitialized

C6_BlankMessageBlocked ==
  [][ (lastOp'[1] \in SubmitOps /\ hasInitialSubmission /\ IsBlank(message))
        => /\ chatReqs' = chatReqs
           /\ error' = QuestionRequiredMsg
           /\ messages' = messages ]_vars

C6_Witness ==
  /\ lastOp = <<"submitMessageMissing">>
  /\ hasInitialSubmission
  /\ message = <<" ">>
  /\ error = QuestionRequiredMsg
  /\ chatReqs = <<>>

\* C7: when createChat fails the transcript is left as it was (no rollback,
\* no assistant turn), the error banner is set (to the timeout message on a
\* timeout) and loading is false.
C7_FailureKeepsTurn ==
  [][ lastOp'[1] = "chatFails"
        => /\ messages' = messages
           /\ error' # ""
           /\ lastOp'[2] = "ECONNABORTED" => error' = TimeoutMsg
           /\ ~loading' ]_vars

C7_Witness ==
  /\ lastOp[1] = "chatFails" /\ lastOp[2] = "ECONNABORTED"
  /\ error = TimeoutMsg
  /\ ~loading
  /\ messages # <<>>
  /\ messages[Len(messages)].type = "user"
  /\ messages[Len(messages)].content = <<"q">>

\* C8: saving a rename whose title is empty or whitespace-only sends no PATCH,
\* leaves the title in the store and in the cached list, and closes the
\* rename input.
C8_BlankRename ==
  [][ (lastOp'[1] \in {"saveRenameSend", "saveRenameEmpty"} /\ IsBlank(newChatName))
        => /\ updateReqs' = updateReqs
           /\ store' = store
           /\ chatHistory' = chatHistory
           /\ renamingChatId' = NoId ]_vars

C8_Witness ==
  /\ lastOp = <<"saveRenameEmpty">>
  /\ renamingChatId = NoId
  /\ updateReqs = <<>>
  /\ chatHistory # <<>>

\* C9: a DELETE is sent only by the confirm action, for the session the modal
\* was opened on; closing the modal by cancel, backdrop or Escape sends
\* nothing and leaves the store, the cached list and the conversation alone;
\* in the delete flow a refresh is issued only by the step in which the
\* store has deleted the session.
DeleteOps == {"delete", "confirmDelete", "cancelDelete", "escape", "deleteSucceeds",
              "deleteFails"}

C9_DeleteNeedsConfirm ==
  [][ /\ Len(deleteReqs') > Len(deleteReqs)
        => /\ lastOp'[1] = "confirmDelete"
           /\ deletingChat # Null
           /\ deleteReqs'[Len(deleteReqs')].id = deletingChat[1].id
      /\ lastOp'[1] \in {"cancelDelete", "escape"}
        => UNCHANGED <<storeVars, netVars, chatHistory, currentChat, chatVars>>
      /\ (lastOp'[1] \in DeleteOps /\ refreshReqs' # refreshReqs)
        => /\ lastOp'[1] = "deleteSucceeds"
           /\ DOMAIN store' # DOMAIN store ]_vars

C9_Witness ==
  /\ lastOp = <<"deleteSucceeds">>
  /\ 1 \notin DOMAIN store
  /\ Len(refreshReqs) = 1
  /\ deletingChat = Null

\* C10: a failed refresh leaves the cached history empty, raises nothing the
\* user sees and ends with loadingHistory false; a successful one replaces
\* the cached history by the list the store returned.
C10_RefreshReplaces ==
  [][ /\ lastOp'[1] = "refreshFails"
        => /\ chatHistory' = <<>>
           /\ ~loadingHistory'
           /\ error' = error /\ alert' = alert
      /\ lastOp'[1] = "refreshSucceeds"
        => /\ \E i \in 1 .. Len(refreshReqs) :
                /\ refreshReqs[i].served
                /\ refreshReqs' = RemoveAt(refreshReqs, i)
                /\ chatHistory' = refreshReqs[i].list
           /\ ~loadingHistory' ]_vars

C10_Witness ==
  /\ lastOp[1] = "refreshFails"
  /\ chatHistory = <<>>
  /\ ~loadingHistory
  /\ store # << >>
  /\ currentChat # Null

\* ------------------------------------------------ specification: refreshes
\* Every store call of the message variant, one request at a time: follow-up
\* turns of a selected session, rename, pin and delete, each succeeding or
\* failing, with the history refreshes they trigger.
RefreshStep ==
  \/ \E i \in Ids : handleSelectChat(i)
  \/ setMessageInput(<<" ", "q">>)
  \/ handleSubmit
  \/ \E i \in Reqs : chatSucceeds(i, <<"r">>)
  \/ \E i \in Reqs, e \in StoreErrors : chatFails(i, e)
  \/ \E i \in Reqs : refreshServed(i)
  \/ \E i \in Reqs : refreshSucceeds(i)
  \/ \E i \in Ids : handleRename(i)
  \/ setNewChatName(<<" ">>)
  \/ handleSaveRename
  \/ \E i \in Ids : handlePin(i)
  \/ \E i \in Reqs : updateSucceeds(i)
  \/ \E i \in Reqs, e \in StoreErrors : updateFails(i, e)
  \/ \E i \in Ids : handleDelete(i)
  \/ handleConfirmDelete
  \/ \E i \in Reqs : deleteSucceeds(i)
  \/ \E i \in Reqs, e \in StoreErrors : deleteFails(i, e)
  \/ dismissAlert

NextRefresh == RefreshStep /\ Within(MaxSequential)

SpecRefresh == InitMessage /\ [][NextRefresh]_vars

\* the steps in which a store call succeeded, failed, or was blocked by validation
SucceededOps == {"chatSucceeds", "updateSucceeds", "deleteSucceeds"}
FailedOps    == {"chatFails", "updateFails", "deleteFails"}
BlockedOps   == {"submitNameMissing", "submitMessageMissing", "submitProblemMissing",
                 "saveRenameEmpty"}

\* C11: the mount issues a refresh; every step in which a turn submission, a
\* rename, a pin toggle or a delete succeeds issues exactly one refresh; no
\* other step issues one, in particular none in which the store call failed
\* or the handler was blocked by validation.
C11_RefreshTriggers ==
  /\ [](lastOp = <<"mount">> => refreshReqs = << [served |-> FALSE, list |-> <<>>] >>)
  /\ [][ /\ lastOp'[1] \in SucceededOps
              => /\ Len(refreshReqs') = Len(refreshReqs) + 1
                 /\ ~refreshReqs'[Len(refreshReqs')].served
                 /\ loadingHistory'
         /\ lastOp'[1] \in FailedOps \cup BlockedOps => refreshReqs' = refreshReqs
         /\ Len(refreshReqs') > Len(refreshReqs) => lastOp'[1] \in SucceededOps ]_vars

C11_Witness ==
  /\ lastOp = <<"updateSucceeds">>
  /\ store[1].pinned
  /\ Len(refreshReqs) = 1
  /\ chatHistory # <<>>
  /\ ~chatHistory[1].pinned


\* ---------------------------------------------- specification: the list
\* a database with two earlier consultations, the newer one with a problem
SeedSessions ==
  (1 :> SeedSession) @@
  (2 :> NewSession(2, [name |-> <<"K">>, problem |-> <<"f">>, message |-> <<"q">>,
                       session_id |-> NoId], <<"r">>))

InitListed ==
  /\ variant = "message"
  /\ store = SeedSessions
  /\ nextId = 3
  /\ chatHistory = <<>>
  /\ currentChat = Null
  /\ loadingHistory = TRUE
  /\ curListed = FALSE
  /\ name = <<>> /\ problem = <<>> /\ message = <<>>
  /\ loading = FALSE
  /\ error = ""
  /\ fieldErrors = NoFieldErrors
  /\ messages = <<>>
  /\ hasInitialSubmission = FALSE
  /\ initialPatientInfo = NoPatientInfo
  /\ currentSessionId = NoId
  /\ renamingChatId = NoId /\ newChatName = <<>>
  /\ deletingChat = Null /\ isDeleting = FALSE
  /\ chatReqs = <<>> /\ updateReqs = <<>> /\ deleteReqs = <<>>
  /\ refreshReqs = << [served |-> FALSE, list |-> <<>>] >>
  /\ alert = ""
  /\ lastOp = <<"mount">>

\* The history list of two sessions under rename and pin, one request at a
\* time, with the refreshes succeeding or failing.
ListStep ==
  \/ \E i \in Reqs : refreshServed(i)
  \/ \E i \in Reqs : refreshSucceeds(i)
  \/ \E i \in Reqs, e \in StoreErrors : refreshFails(i, e)
  \/ \E i \in Ids : handleSelectChat(i)
  \/ \E i \in Ids : handleRename(i)
  \/ handleSaveRename
  \/ handleCancelRename
  \/ \E i \in Ids : handlePin(i)
  \/ \E i \in Reqs : updateSucceeds(i)
  \/ \E i \in Reqs, e \in StoreErrors : updateFails(i, e)
  \/ dismissAlert

NextList == ListStep /\ Within(MaxSequential)

SpecList == InitListed /\ [][NextList]_vars

\* C12: when the cached list is the store's current list (a refresh succeeded
\* and the store was not changed since) and a second refresh, answered from
\* the same store, succeeds, the cached list after it is the same list, in
\* the same order.
C12_RefreshIdempotent ==
  [][ \A i \in 1 .. Len(refreshReqs) :
        (/\ lastOp'[1] = "refreshSucceeds"
         /\ refreshReqs[i].served
         /\ refreshReqs' = RemoveAt(refreshReqs, i)
         /\ refreshReqs[i].list = ListSessions(store)
         /\ chatHistory = ListSessions(store))
          => chatHistory' = chatHistory ]_vars

\* the first refresh has delivered, the second is answered and about to deliver
C12_Witness ==
  /\ lastOp = <<"refreshServed">>
  /\ chatHistory # <<>>
  /\ chatHistory = ListSessions(store)
  /\ Len(refreshReqs) = 1
  /\ refreshReqs[1].served
  /\ refreshReqs[1].list = chatHistory


\* in the list l every pinned session stands before every session not pinned
PinnedFirst(l) ==
  \A a, b \in 1 .. Len(l) : (l[a].pinned /\ ~l[b].pinned) => a < b

\* C13: when a pin request (pinned: true) succeeds the session is pinned in
\* the store; the list a following refresh delivers is held by the client in
\* the order the store returned it, and when it was answered from the current
\* store every pinned session of the store stands in it before every session
\* that is not pinned.
C13_PinnedOnTop ==
  [][ /\ \A i \in 1 .. Len(updateReqs) :
           (/\ lastOp'[1] = "updateSucceeds"
            /\ updateReqs' = RemoveAt(updateReqs, i)
            /\ updateReqs[i].update.field = "pinned"
            /\ updateReqs[i].update.flag)
             => store'[updateReqs[i].id].pinned
      /\ \A i \in 1 .. Len(refreshReqs) :
           (/\ lastOp'[1] = "refreshSucceeds"
            /\ refreshReqs[i].served
            /\ refreshReqs' = RemoveAt(refreshReqs, i))
             => /\ chatHistory' = refreshReqs[i].list
                /\ PinnedFirst(chatHistory')
                /\ refreshReqs[i].list = ListSessions(store)
                     => \A k \in DOMAIN store :
                          store[k].pinned
                            => \E p \in 1 .. Len(chatHistory') :
                                 /\ chatHistory'[p].id = k
                                 /\ chatHistory'[p].pinned
                                 /\ \A q \in 1 .. Len(chatHistory') :
                                      ~chatHistory'[q].pinned => p < q ]_vars

\* the older session was pinned and now stands before the newer one
C13_Witness ==
  /\ lastOp = <<"refreshSucceeds">>
  /\ Len(chatHistory) = 2
  /\ chatHistory[1].id = 1 /\ chatHistory[1].pinned
  /\ chatHistory[2].id = 2 /\ ~chatHistory[2].pinned
  /\ store[1].pinned


\* ------------------------------------------ specification: createChat errors
\* A first turn is submitted and createChat rejects with every combination of
\* the error fields.
ClassifyStep ==
  \/ setNameInput(<<" ", "K">>)
  \/ setMessageInput(<<" ", "q">>)
  \/ handleSubmit
  \/ \E i \in Reqs : refreshServed(i)
  \/ \E i \in Reqs : refreshSucceeds(i)
  \/ \E i \in Reqs, e \in AllAxiosErrors : chatFails(i, e)

NextClassify == ClassifyStep /\ Within(MaxSequential)

SpecClassify == InitMessage /\ [][NextClassify]_vars

\* the request ran into its timeout
IsTimeout(e) == e.code = "ECONNABORTED" \/ e.msgTimeout

RemoteFallbackMsg == "An error occurred while processing your request"
UnexpectedMsg     == "An unexpected error occurred"

\* C14: the error createChat throws depends only on the fields of the axios
\* error: with a response it carries the server's detail, or the fallback
\* text when there is none; without a response, a timeout gives the timeout
\* error; without a response and without a timeout, a request that was sent
\* gives the connectivity error; and it is exactly one of these texts (or the
\* text for an error that has neither response nor request).
C14_Classification ==
  [][ lastOp'[1] = "chatFails"
        => LET e == lastOp'[3] IN
           /\ e.response /\ e.detail # "" => error' = e.detail
           /\ e.response /\ e.detail = "" => error' = RemoteFallbackMsg
           /\ ~e.response /\ IsTimeout(e) => error' = TimeoutMsg
           /\ ~e.response /\ ~IsTimeout(e) /\ e.request => error' = NoConnectMsg
           /\ ~e.response /\ ~IsTimeout(e) /\ ~e.request => error' = UnexpectedMsg
           /\ Cardinality({"Server detail", RemoteFallbackMsg, TimeoutMsg, NoConnectMsg,
                           UnexpectedMsg} \cap {error'}) = 1 ]_vars

\* a timeout that also has the request object set is reported as a timeout
C14_Witness ==
  /\ lastOp[1] = "chatFails"
  /\ ~lastOp[3].response /\ lastOp[3].request /\ lastOp[3].msgTimeout
  /\ lastOp[3].code = "ERR_NETWORK"
  /\ error = TimeoutMsg


\* C14 as stated: three outcomes, and every failure without a response that is
\* not a timeout is the connectivity error.
C14_ThreeOutcomes ==
  [][ lastOp'[1] = "chatFails"
        => LET e == lastOp'[3] IN
           /\ e.response => error' \in {e.detail, RemoteFallbackMsg}
           /\ ~e.response /\ IsTimeout(e) => error' = TimeoutMsg
           /\ ~e.response /\ ~IsTimeout(e) => error' = NoConnectMsg ]_vars


\* ----------------------------------------- specification: two turns in flight
\* Submissions interleaved with new chat and selection, with room for a second
\* request while the first is still outstanding.
DupStep ==
  \/ setNameInput(<<" ", "K">>)
  \/ setMessageInput(<<" ", "q">>)
  \/ handleSubmit
  \/ \E i \in Reqs : chatSucceeds(i, <<"r">>)
  \/ handleNewChat
  \/ \E i \in Ids : handleSelectChat(i)
  \/ \E i \in Reqs : refreshServed(i)
  \/ \E i \in Reqs : refreshSucceeds(i)

NextDup == DupStep /\ Within(MaxInFlight)

SpecDup == InitMessage /\ [][NextDup]_vars

\* C15: at most one createChat request of the chat component is outstanding,
\* and while one is outstanding the submit control is disabled (loading).
C15_SingleOutstanding ==
  /\ Len(chatReqs) <= 1
  /\ chatReqs # <<>> => loading


\* C16: when the first turn of a new conversation succeeds (message variant),
\* the assistant turn of the response is appended at the end of the
\* transcript, directly after the submitted user turn when that turn is still
\* the last one; the session id is the id of the response, the conversation is
\* in ACTIVE_SESSION, and the patient info holds the trimmed name and problem
\* of the submission (or their placeholders).
C16_FirstTurnSuccess ==
  [][ \A i \in 1 .. Len(chatReqs) :
        (/\ lastOp'[1] = "chatSucceeds"
         /\ variant = "message"
         /\ chatReqs' = RemoveAt(chatReqs, i)
         /\ chatReqs[i].closure.isFirstSubmission)
          => LET r == chatReqs[i]
                 n == Len(messages)
             IN  /\ Len(messages') = n + 1
                 /\ SubSeq(messages', 1, n) = messages
                 /\ messages'[n + 1].type = "ai"
                 /\ messages'[n + 1].content = store'[nextId].ai_response
                 /\ (n > 0 /\ messages[n].type = "user" /\ messages[n].content = r.data.message)
                      => (messages'[n].type = "user" /\ messages'[n].content = r.data.message)
                 /\ currentSessionId' = store'[nextId].id
                 /\ hasInitialSubmission'
                 /\ initialPatientInfo' =
                      [name    |-> OrElse(Trim(r.closure.name), Anonymous),
                       problem |-> OrElse(Trim(r.closure.problem), NoDisease)]
                 /\ initialPatientInfo'.name = store'[nextId].patient_name ]_vars

C16_Witness ==
  /\ lastOp = <<"chatSucceeds">>
  /\ variant = "message"
  /\ hasInitialSubmission
  /\ currentSessionId = 2
  /\ Len(messages) = 2
  /\ messages[1] = [type |-> "user", content |-> <<"q">>, name |-> <<"K">>]
  /\ messages[2].type = "ai" /\ messages[2].content = <<"r">>
  /\ initialPatientInfo = [name |-> <<"K">>, problem |-> NoDisease]


Reselects(i) ==
  currentChat # Null /\ curListed /\ currentChat[1].id = chatHistory[i].id

\* what C18 says of the conversation after row i was selected
LoadedFrom(i) ==
  /\ hasInitialSubmission'
  /\ currentSessionId' = chatHistory[i].id
  /\ message' = <<>>
  /\ Len(messages') = Len(chatHistory[i].messages)
  /\ \A k \in 1 .. Len(messages') :
       messages'[k].type = (IF chatHistory[i].messages[k].role = "user" THEN "user" ELSE "ai")
  /\ error' = error /\ fieldErrors' = fieldErrors
  /\ chatReqs' = chatReqs

\* C18 as stated: after any selection of a listed session the conversation is
\* in ACTIVE_SESSION, bound to its id, the message field is empty and the
\* transcript holds its turns in order with their roles; nothing is validated.
C18_SelectAlwaysLoads ==
  [][ \A i \in 1 .. Len(chatHistory) :
        (/\ lastOp'[1] = "selectChat" /\ variant = "message"
         /\ currentChat' = Some(chatHistory[i]))
          => LoadedFrom(i) ]_vars

\* C18 amended: the same, for a selection that changes the current chat; a
\* click on the session that is already the current chat changes nothing in
\* the conversation (a typed message stays).
C18_SelectLoads ==
  [][ \A i \in 1 .. Len(chatHistory) :
        (/\ lastOp'[1] = "selectChat" /\ variant = "message"
         /\ currentChat' = Some(chatHistory[i]))
          => IF Reselects(i) THEN UNCHANGED chatVars ELSE LoadedFrom(i) ]_vars

\* a session with a follow-up turn was selected
C18_Witness ==
  /\ lastOp = <<"selectChat">>
  /\ variant = "message"
  /\ hasInitialSubmission /\ currentSessionId = 1
  /\ message = <<>>
  /\ Len(messages) = 4
  /\ messages[3].type = "user" /\ messages[4].type = "ai"
  /\ currentChat # Null /\ Len(currentChat[1].messages) = 4


InputOps == {"setName", "setProblem", "setMessage"}

\* C19: a follow-up turn of the message variant sends the name and the problem
\* of the session it is bound to, as the store recorded them when the session
\* started; typing in the form and submitting leave the captured patient info
\* as it is.
C19_FollowUpIdentity ==
  [][ /\ (/\ lastOp'[1] = "submitSend" /\ variant = "message"
          /\ hasInitialSubmission /\ currentSessionId \in DOMAIN store)
           => LET d == chatReqs'[Len(chatReqs')].data
              IN  /\ Len(chatReqs') = Len(chatReqs) + 1
                  /\ d.name = store[currentSessionId].patient_name
                  /\ d.problem = store[currentSessionId].problem
      /\ lastOp'[1] \in InputOps \cup SubmitOps
           => initialPatientInfo' = initialPatientInfo ]_vars

\* the follow-up of a session started as K/f, sent while the name and problem
\* state of the form hold the values of another session
C19_Witness ==
  /\ lastOp = <<"submitSend">>
  /\ variant = "message"
  /\ hasInitialSubmission /\ currentSessionId = 2
  /\ name = <<"J">> /\ problem = <<>>
  /\ Len(chatReqs) = 1
  /\ chatReqs[1].data.name = <<"K">> /\ chatReqs[1].data.problem = <<"f">>
  /\ chatReqs[1].data.session_id = 2


\* the literal part of C20: a request sent while the conversation is not in
\* ACTIVE_SESSION has no session id
C20_IdOnlyWhenActive ==
  [][ (lastOp'[1] = "submitSend" /\ variant = "message")
        => LET d == chatReqs'[Len(chatReqs')].data
           IN  d.session_id # NoId => (hasInitialSubmission /\ d.session_id = currentSessionId) ]_vars

\* C20: a request of handleSubmit has a session id only in ACTIVE_SESSION; in
\* particular the submission that follows a new-chat reset has none, and the
\* submission that follows the deletion of the active session has none: a
\* conversation that was not opened from the list and whose session the store
\* no longer holds sends no session id.
C20_NoIdOutsideActive ==
  [][ (lastOp'[1] = "submitSend" /\ variant = "message")
        => LET d == chatReqs'[Len(chatReqs')].data
           IN  /\ d.session_id # NoId => (hasInitialSubmission /\ d.session_id = currentSessionId)
               /\ (currentChat = Null /\ currentSessionId \notin DOMAIN store)
                    => d.session_id = NoId ]_vars


\* ------------------------------------------- specification: empty replies
\* Turns of the message variant answered with a reply, with the empty string
\* and with no assistant content at all.
EmptyReplies == {<<>>, NullStr}

EmptyStep ==
  \/ setNameInput(<<" ", "K">>)
  \/ setMessageInput(<<" ", "q">>)
  \/ handleSubmit
  \/ \E i \in Reqs, ai \in EmptyReplies \cup {<<"r">>} : chatSucceeds(i, ai)
  \/ handleNewChat
  \/ \E i \in Ids : handleSelectChat(i)
  \/ \E i \in Reqs : refreshServed(i)
  \/ \E i \in Reqs : refreshSucceeds(i)

NextEmpty == EmptyStep /\ Within(MaxSequential)

SpecEmpty == InitMessage /\ [][NextEmpty]_vars

\* C21: a turn answered with empty or missing assistant content still appends
\* an assistant turn, with the empty string as content, and the success path
\* runs as always: the session id is bound to the id of the response on a
\* first turn and kept on a follow-up, one refresh is queued, the message
\* field is cleared and loading ends.
C21_EmptyReply ==
  [][ \A i \in 1 .. Len(chatReqs) :
        (/\ lastOp'[1] = "chatSucceeds"
         /\ chatReqs' = RemoveAt(chatReqs, i)
         /\ store'[servedId(chatReqs[i])].ai_response \in EmptyReplies)
          => LET r == chatReqs[i] IN
             /\ messages' = Append(messages, [type |-> "ai", content |-> <<>>,
                                              name |-> NullStr])
             /\ r.closure.isFirstSubmission
                  => (hasInitialSubmission' /\ currentSessionId' = servedId(r))
             /\ ~r.closure.isFirstSubmission
                  => (hasInitialSubmission' = hasInitialSubmission
                      /\ currentSessionId' \in {currentSessionId, servedId(r)})
             /\ Len(refreshReqs') = Len(refreshReqs) + 1
             /\ ~refreshReqs'[Len(refreshReqs')].served
             /\ message' = <<>>
             /\ ~loading'
             /\ error' = error ]_vars

\* a first turn answered without assistant content
C21_Witness ==
  /\ lastOp = <<"chatSucceeds">>
  /\ hasInitialSubmission /\ currentSessionId = 2
  /\ 2 \in DOMAIN store /\ store[2].ai_response = NullStr
  /\ Len(messages) = 2
  /\ messages[2] = [type |-> "ai", content |-> <<>>, name |-> NullStr]
  /\ message = <<>>
  /\ Len(refreshReqs) = 1


\* the fields of a session record other than its title and its pinned flag
Untouched(s) == [id |-> s.id, patient_name |-> s.patient_name, messages |-> s.messages,
                 additional_info |-> s.additional_info, ai_response |-> s.ai_response]

\* C22: a rename sends only the problem field, holding the trimmed new title,
\* and a pin toggle sends only the pinned field, holding the negated flag of
\* the listed entry; when the store applies a rename the session keeps its
\* pinned flag and id, when it applies a pin the session keeps its title,
\* patient name, transcript and id, and no other session changes.
C22_PartialUpdates ==
  [][ /\ lastOp'[1] = "saveRenameSend"
           => /\ Len(updateReqs') = Len(updateReqs) + 1
              /\ LET q == updateReqs'[Len(updateReqs')]
                 IN  /\ q.id = renamingChatId
                     /\ q.update.field = "problem"
                     /\ q.update.text = Trim(newChatName)
                     /\ q.update.text # <<>>
      /\ lastOp'[1] = "pin"
           => /\ Len(updateReqs') = Len(updateReqs) + 1
              /\ LET q == updateReqs'[Len(updateReqs')]
                 IN  /\ q.update.field = "pinned"
                     /\ \E i \in 1 .. Len(chatHistory) :
                          q.id = chatHistory[i].id /\ q.update.flag = ~chatHistory[i].pinned
      /\ \A i \in 1 .. Len(updateReqs) :
           (lastOp'[1] = "updateSucceeds" /\ updateReqs' = RemoveAt(updateReqs, i))
             => LET q == updateReqs[i] IN
                /\ DOMAIN store' = DOMAIN store
                /\ \A k \in DOMAIN store : k # q.id => store'[k] = store[k]
                /\ Untouched(store'[q.id]) = Untouched(store[q.id])
                /\ q.update.field = "problem"
                     => (store'[q.id].pinned = store[q.id].pinned
                         /\ store'[q.id].problem = q.update.text)
                /\ q.update.field = "pinned"
                     => (store'[q.id].problem = store[q.id].problem
                         /\ store'[q.id].pinned = q.update.flag) ]_vars

\* a pinned session was renamed and is still pinned
C22_Witness ==
  /\ lastOp = <<"updateSucceeds">>
  /\ store[1].pinned
  /\ store[1].problem = <<"t">>
  /\ renamingChatId = NoId
  /\ chatHistory # <<>> /\ chatHistory[1].pinned /\ chatHistory[1].problem # <<"t">>


SideFailedOps == {"updateFails", "deleteFails"}

\* C23: a failed rename, pin or delete opens the blocking alert (no handler
\* runs until it is dismissed; the store may answer a request meanwhile),
\* issues no refresh and leaves the store, the
\* history list, the current chat and the conversation as they are; after a
\* failed update the rename mode and the typed title are as before the
\* failure, after a failed delete the modal is closed and isDeleting is false.
C23_SidebarFailure ==
  [][ /\ lastOp'[1] \in SideFailedOps
           => /\ alert = "" /\ alert' # ""
              /\ refreshReqs' = refreshReqs /\ loadingHistory' = loadingHistory
              /\ chatHistory' = chatHistory
              /\ currentChat' = currentChat
              /\ store' = store
              /\ UNCHANGED chatVars
      /\ lastOp'[1] = "updateFails"
           => /\ renamingChatId' = renamingChatId /\ newChatName' = newChatName
              /\ Len(updateReqs') = Len(updateReqs) - 1
              /\ UNCHANGED <<deletingChat, isDeleting>>
      /\ lastOp'[1] = "deleteFails"
           => /\ deletingChat' = Null /\ ~isDeleting'
              /\ Len(deleteReqs') = Len(deleteReqs) - 1
      /\ alert # ""
           => \/ lastOp' = <<"dismissAlert">> /\ alert' = ""
              \/ /\ lastOp' = <<"refreshServed">>
                 /\ UNCHANGED <<alert, store, chatHistory, currentChat, chatVars, sideVars>> ]_vars

\* a rename failed and the row is still being edited with the typed title
C23_Witness ==
  /\ lastOp[1] = "updateFails"
  /\ alert # ""
  /\ renamingChatId = 1 /\ newChatName = <<" ", "t">>
  /\ updateReqs = <<>>
  /\ store[1].problem # <<"t">>


\* -------------------------------------------- specification: failed turns
\* First turns and follow-ups of one conversation that succeed or fail, with
\* no navigation between a submission and its outcome.
RetryStep ==
  \/ \E v \in NameInputs : setNameInput(v)
  \/ \E v \in ProblemInputs : setProblemInput(v)
  \/ \E v \in MessageInputs : setMessageInput(v)
  \/ handleSubmit
  \/ \E i \in Reqs : chatSucceeds(i, <<"r">>)
  \/ \E i \in Reqs, e \in StoreErrors : chatFails(i, e)
  \/ \E i \in Reqs : refreshServed(i)
  \/ \E i \in Reqs : refreshSucceeds(i)

NextRetry == RetryStep /\ Within(MaxSequential)

SpecRetry == InitMessage /\ [][NextRetry]_vars

\* C24: when a submission fails, the mode, the bound session id, the captured
\* patient info and the name, problem and message inputs are what they were
\* when the turn was submitted, loading is false, and the same submission
\* can be made again: it passes validation and builds the same request.
C24_FailureRecoverable ==
  [][ /\ lastOp'[1] = "submitSend"
           => UNCHANGED <<hasInitialSubmission, currentSessionId, initialPatientInfo,
                          name, problem, message>>
      /\ \A i \in 1 .. Len(chatReqs) :
           (lastOp'[1] = "chatFails" /\ chatReqs' = RemoveAt(chatReqs, i))
             => LET r == chatReqs[i] IN
                /\ UNCHANGED <<hasInitialSubmission, currentSessionId, initialPatientInfo,
                               name, problem, message>>
                /\ hasInitialSubmission' = ~r.closure.isFirstSubmission
                /\ currentSessionId' = r.closure.currentSessionId
                /\ r.closure.isFirstSubmission
                     => (name' = r.closure.name /\ problem' = r.closure.problem)
                /\ Trim(message') = r.data.message
                /\ ~loading' /\ alert' = ""
                /\ ~(~hasInitialSubmission' /\ nameMissing(name'))
                /\ ~messageMissing(message')
                /\ chatData' = r.data ]_vars

\* a follow-up turn failed and can be sent again
C24_Witness ==
  /\ lastOp[1] = "chatFails"
  /\ hasInitialSubmission /\ currentSessionId = 2
  /\ initialPatientInfo.name = <<"K">>
  /\ message = <<" ", "q">>
  /\ ~loading /\ error # ""
  /\ Len(messages) = 3


\* the conversation shown is no longer the one request r was submitted from:
\* a session was opened from the list whose id is not the id r was sent under
OpenedSince(r) ==
  currentChat # Null /\ currentChat[1].id # r.closure.currentSessionId

\* C25: in the message variant the bound session id is the id of the session
\* whose turns are shown, and the response to a turn submitted from another
\* conversation is not appended to the transcript shown and does not bind or
\* rebind its session id.
C25_SessionConsistency ==
  /\ []((variant = "message" /\ currentChat # Null /\ hasInitialSubmission)
          => currentSessionId = currentChat[1].id)
  /\ [][ \A i \in 1 .. Len(chatReqs) :
           (/\ lastOp'[1] = "chatSucceeds" /\ variant = "message"
            /\ chatReqs' = RemoveAt(chatReqs, i)
            /\ OpenedSince(chatReqs[i]))
             => (messages' = messages /\ currentSessionId' = currentSessionId) ]_vars


\* no request of any kind is outstanding
Quiescent == chatReqs = <<>> /\ refreshReqs = <<>> /\ updateReqs = <<>> /\ deleteReqs = <<>>

\* C26: once every issued request and every issued refresh has completed, the
\* cached history list is the store's current list.
C26_Converges == Quiescent => chatHistory = ListSessions(store)


\* ------------------------------------------- specification: pin toggles
\* The listed sessions are pinned, unpinned and renamed, with room for a
\* second request before the first has completed.
PinStep ==
  \/ \E i \in Reqs : refreshServed(i)
  \/ \E i \in Reqs : refreshSucceeds(i)
  \/ \E i \in Ids : handlePin(i)
  \/ \E i \in Ids : handleRename(i)
  \/ handleSaveRename
  \/ handleCancelRename
  \/ \E i \in Reqs : updateSucceeds(i)

NextPin == PinStep /\ Within(MaxInFlight)

SpecPin == InitListed /\ [][NextPin]_vars

\* C27: every pin toggle that completes flips the pinned flag of its session
\* in the store, so that n completed toggles leave the initial flag flipped n
\* times.
C27_TrueToggle ==
  [][ \A i \in 1 .. Len(updateReqs) :
        (/\ lastOp'[1] = "updateSucceeds"
         /\ updateReqs' = RemoveAt(updateReqs, i)
         /\ updateReqs[i].update.field = "pinned")
          => store'[updateReqs[i].id].pinned = ~store[updateReqs[i].id].pinned ]_vars


\* the part of C28 on follow-up turns: the response to a follow-up leaves the
\* bound session id as it is
C28_FollowUpsKeepId ==
  [][ \A i \in 1 .. Len(chatReqs) :
        (/\ lastOp'[1] = "chatSucceeds"
         /\ chatReqs' = RemoveAt(chatReqs, i)
         /\ ~chatReqs[i].closure.isFirstSubmission)
          => currentSessionId' = currentSessionId ]_vars

\* C28: in the message variant the bound session id is null while the
\* conversation is not in ACTIVE_SESSION; it becomes bound only by an
\* answered turn or a selection, and once bound it is changed or cleared only
\* by new chat, by a selection or by a delete.
C28_IdStable ==
  /\ []((variant = "message" /\ ~hasInitialSubmission) => currentSessionId = NoId)
  /\ [][ /\ (currentSessionId = NoId /\ currentSessionId' # NoId)
              => lastOp'[1] \in {"chatSucceeds", "selectChat"}
         /\ (currentSessionId # NoId /\ currentSessionId' # currentSessionId)
              => lastOp'[1] \in {"newChat", "selectChat", "deleteSucceeds"} ]_vars


\* the session of delete request r is the conversation on screen, or was the
\* current chat when the deletion was confirmed
DeletesActive(r) ==
  \/ currentSessionId = r.id
  \/ currentChat # Null /\ currentChat[1].id = r.id
  \/ r.currentChat # Null /\ r.currentChat[1].id = r.id

C30_LoadingHistory == loadingHistory <=> refreshReqs # <<>>

====
